---- MODULE Spec2Model ----
(***************************************************************************)
(* A model of lora_implementation_scratch.py: the LoRA wrapper around a    *)
(* pretrained RoBERTa encoder (LoraWrapperRobertaHelper) and the adapted    *)
(* self-attention module (LoraRobertaSelfAttention).                        *)
(*                                                                         *)
(* A module of the network is a record                                      *)
(*    [cls, params, children]                                               *)
(* cls is the class name, params the module's own parameters in            *)
(* registration order, children its named child modules in registration    *)
(* order.  A parameter is [name, val, shape, requires_grad]; a tensor is    *)
(* abstracted to one integer (val) and its shape.                           *)
(***************************************************************************)
EXTENDS Integers, Sequences, FiniteSets, TLC

\* ---------------------------------------------------------------- bounds
MaxLayers == 2      \* encoder layers of the largest checkpoint
MaxRank == 2        \* lora_rank is drawn from 1..MaxRank
MaxSeed == 2        \* seeds of the random initialisation, 1..MaxSeed

NumHeads == 2       \* config.num_attention_heads of the modelled checkpoints
HeadSize == 1       \* attention_head_size of the modelled checkpoints

\* all_head_size, equal to config.hidden_size in the modelled checkpoints.
HiddenSize == NumHeads * HeadSize

\* ------------------------------------------------------------ exceptions
NoError == "none"
OSErrorNotFound == "OSError"
AssertionErr == "AssertionError"
RuntimeErr == "RuntimeError"
UnboundLocalErr == "UnboundLocalError"
ValueErrNoInput == "ValueError: No filepath or state dict provided"

\* ------------------------------------------------------------- strings
\* Python's `pat in name` on strings.
Contains(name, pat) ==
    \E i \in 1..(Len(name) - Len(pat) + 1) : SubSeq(name, i, i + Len(pat) - 1) = pat

\* Python's name.startswith(pat).
StartsWith(name, pat) ==
    Len(name) >= Len(pat) /\ SubSeq(name, 1, Len(pat)) = pat

\* ------------------------------------------------------- module records
Param(name, val, shape) ==
    [name |-> name, val |-> val, shape |-> shape, requires_grad |-> TRUE]

Module(cls, params, children) ==
    [cls |-> cls, params |-> params, children |-> children]

Child(name, module) == [name |-> name, module |-> module]

NoModel == Module("None", <<>>, <<>>)

Prefixed(prefix, ps) ==
    [i \in 1..Len(ps) |-> [ps[i] EXCEPT !.name = prefix \o "." \o @]]

\* nn.Module.named_parameters(): own parameters first, then each child's,
\* prefixed with the child's name.
RECURSIVE NamedParameters(_), ChildrenParameters(_)
NamedParameters(module) ==
    module.params \o ChildrenParameters(module.children)

ChildrenParameters(cs) ==
    IF cs = <<>> THEN <<>>
    ELSE Prefixed(Head(cs).name, NamedParameters(Head(cs).module))
           \o ChildrenParameters(Tail(cs))

\* nn.Module.state_dict(): the mapping name -> tensor, as a set of
\* [name, val, shape] entries (requires_grad is no part of a state dict).
StateDict(module) ==
    LET ps == NamedParameters(module)
    IN {[name |-> ps[i].name, val |-> ps[i].val, shape |-> ps[i].shape] : i \in 1..Len(ps)}

Keys(sd) == {e.name : e \in sd}

Lookup(sd, name) == CHOOSE e \in sd : e.name = name

\* --------------------------------------------- the pretrained checkpoints
\* Building blocks of the host library's RobertaModel; w is the value the
\* module's tensors hold.
Linear(w) ==
    Module("Linear",
           <<Param("weight", w, <<HiddenSize, HiddenSize>>),
             Param("bias", w, <<HiddenSize>>)>>, <<>>)

LayerNorm(w) ==
    Module("LayerNorm",
           <<Param("weight", w, <<HiddenSize>>), Param("bias", w, <<HiddenSize>>)>>, <<>>)

Embedding(w) ==
    Module("Embedding", <<Param("weight", w, <<HiddenSize>>)>>, <<>>)

Dropout == Module("Dropout", <<>>, <<>>)

IsRelative(config) ==
    config.position_embedding_type \in {"relative_key", "relative_key_query"}

\* The children RobertaSelfAttention.__init__ registers for `config`.
SelfAttentionChildren(config, w) ==
    <<Child("query", Linear(w + 1)), Child("key", Linear(w + 2)),
      Child("value", Linear(w + 3)), Child("dropout", Dropout)>>
    \o (IF IsRelative(config) THEN <<Child("distance_embedding", Embedding(w + 4))>>
        ELSE <<>>)

\* The class the library instantiates for config.attn_implementation.
SelfAttentionClass(config) ==
    IF config.attn_implementation = "sdpa" THEN "RobertaSdpaSelfAttention"
    ELSE "RobertaSelfAttention"

RobertaLayer(config, w) ==
    Module("RobertaLayer", <<>>,
      <<Child("attention", Module("RobertaAttention", <<>>,
          <<Child("self", Module(SelfAttentionClass(config), <<>>,
                                 SelfAttentionChildren(config, w))),
            Child("output", Module("RobertaSelfOutput", <<>>,
                <<Child("dense", Linear(w + 5)), Child("LayerNorm", LayerNorm(w + 6)),
                  Child("dropout", Dropout)>>))>>)),
        Child("intermediate", Module("RobertaIntermediate", <<>>,
            <<Child("dense", Linear(w + 7))>>)),
        Child("output", Module("RobertaOutput", <<>>,
            <<Child("dense", Linear(w + 8)), Child("LayerNorm", LayerNorm(w + 9)),
              Child("dropout", Dropout)>>))>>)

LayerName(i) == ToString(i - 1)

RobertaModel(config) ==
    Module("RobertaModel", <<>>,
      <<Child("embeddings", Module("RobertaEmbeddings", <<>>,
          <<Child("word_embeddings", Embedding(1)),
            Child("position_embeddings", Embedding(2)),
            Child("token_type_embeddings", Embedding(3)),
            Child("LayerNorm", LayerNorm(4)), Child("dropout", Dropout)>>)),
        Child("encoder", Module("RobertaEncoder", <<>>,
          <<Child("layer", Module("ModuleList", <<>>,
              [i \in 1..config.num_hidden_layers |->
                  Child(LayerName(i), RobertaLayer(config, 10 * i))]))>>)),
        Child("pooler", Module("RobertaPooler", <<>>,
          <<Child("dense", Linear(5)), Child("activation", Module("Tanh", <<>>, <<>>))>>))>>)

Config(layers, pos, attn) ==
    [hidden_size |-> HiddenSize, num_attention_heads |-> NumHeads,
     num_hidden_layers |-> layers, position_embedding_type |-> pos,
     attn_implementation |-> attn, is_decoder |-> FALSE]

NoConfig == Config(0, "none", "none")

\* The identifiers the loading collaborator is asked for.
ModelIds ==
    {"roberta-base", "distilroberta-base", "roberta-relative-key", "roberta-sdpa",
     "no-such-model"}

Resolvable(model_id) == model_id # "no-such-model"

HubConfig(model_id) ==
    CASE model_id = "roberta-base" -> Config(MaxLayers, "absolute", "eager")
      [] model_id = "distilroberta-base" -> Config(MaxLayers - 1, "absolute", "eager")
      [] model_id = "roberta-relative-key" -> Config(1, "relative_key", "eager")
      [] model_id = "roberta-sdpa" -> Config(1, "absolute", "sdpa")

\* RobertaModel.from_pretrained(model_id), for a resolvable identifier.
from_pretrained(model_id) == RobertaModel(HubConfig(model_id))

\* ------------------------------------------- LoraRobertaSelfAttention
\* class LoraRobertaSelfAttention(RobertaSelfAttention); the library's
\* RobertaSdpaSelfAttention is a subclass of RobertaSelfAttention too.
IsInstance(cls, base) ==
    \/ cls = base
    \/ /\ base = "RobertaSelfAttention"
       /\ cls \in {"LoraRobertaSelfAttention", "RobertaSdpaSelfAttention"}

\* torch.zeros(...): the value of a tensor of zeros.
Zeros == 0

\* torch.randn(...) and the library's own initialisation: the draw `seed` of the
\* n-th module built; never zero, and never a value of a checkpoint.
Randn(seed, n) == 100 * (seed + n)

\* LoraRobertaSelfAttention.__init__(r, config): the base constructor's children,
\* freshly initialised, and the four adapter matrices.
LoraRobertaSelfAttention(r, config, rnd) ==
    LET d == config.hidden_size
    IN Module("LoraRobertaSelfAttention",
              <<Param("lora_query_matrix_B", Zeros, <<d, r>>),
                Param("lora_query_matrix_A", rnd + 10, <<r, d>>),
                Param("lora_value_matrix_B", Zeros, <<d, r>>),
                Param("lora_value_matrix_A", rnd + 11, <<r, d>>)>>,
              SelfAttentionChildren(config, rnd))

\* nn.Module.load_state_dict(sd, strict=False): every parameter of the module
\* whose name is a key of sd takes sd's value; keys of sd the module lacks and
\* parameters sd lacks are tolerated.
RECURSIVE LoadInto(_, _, _)
LoadInto(module, prefix, sd) ==
    LET ps == module.params
        cs == module.children
    IN Module(module.cls,
              [i \in 1..Len(ps) |->
                  LET full == prefix \o ps[i].name
                  IN IF full \in Keys(sd) /\ Lookup(sd, full).shape = ps[i].shape
                     THEN [ps[i] EXCEPT !.val = Lookup(sd, full).val]
                     ELSE ps[i]],
              [i \in 1..Len(cs) |->
                  Child(cs[i].name, LoadInto(cs[i].module, prefix \o cs[i].name \o ".", sd))])

\* A faulty variant: the old weights are never loaded into the new layer.
load_state_dict_skipped(module, sd) == module

load_state_dict(module, sd) == LoadInto(module, "", sd)

\* load_state_dict raises RuntimeError, also when not strict, for a key both
\* sides have with tensors of different shapes.
SizeMismatch(module, sd) ==
    \E e \in StateDict(module) :
        e.name \in Keys(sd) /\ Lookup(sd, e.name).shape # e.shape

\* ------------------------------------------- LoraWrapperRobertaHelper
\* keys_old = set(state_dict_old.keys())
KeysOld(state_dict_old) == Keys(state_dict_old)

\* A faulty variant: the adapter names are not left out of the comparison.
KeysNewUnfiltered(state_dict_new) == Keys(state_dict_new)

\* keys_new = set(k for k in state_dict_new.keys() if not k.startswith("lora_"))
KeysNew(state_dict_new) ==
    {k \in Keys(state_dict_new) : ~StartsWith(k, "lora_")}

\* A faulty variant: the new layer is never put in place.
SetAttrNoop(model, i, new_layer) == model

\* setattr(model, name, new_layer), name being the model's i-th child.
SetAttr(model, i, new_layer) ==
    [model EXCEPT !.children[i].module = new_layer]

\* The body of the loop of replace_multihead_attention_recursion from the i-th
\* named child on.  h = [nr, err] is self.nr_replaced_modules and the exception
\* raised so far; an exception ends the traversal.  The result is h and the
\* model as the traversal left it.
RECURSIVE ReplaceFrom(_, _, _, _)
ReplaceFrom(self, h, model, i) ==
    IF h.err # NoError \/ i > Len(model.children)
    THEN [h |-> h, model |-> model]
    ELSE LET module == model.children[i].module
         IN IF IsInstance(module.cls, "RobertaSelfAttention")
            THEN LET h1 == [h EXCEPT !.nr = @ + 1]
                     new_layer == LoraRobertaSelfAttention(
                                      self.lora_rank, self.model_config,
                                      Randn(self.seed, h1.nr))
                     state_dict_old == StateDict(module)
                     loaded == load_state_dict(new_layer, state_dict_old)
                     state_dict_new == StateDict(loaded)
                 IN IF SizeMismatch(new_layer, state_dict_old)
                    THEN [h |-> [h1 EXCEPT !.err = RuntimeErr], model |-> model]
                    ELSE IF KeysOld(state_dict_old) # KeysNew(state_dict_new)
                    THEN [h |-> [h1 EXCEPT !.err = AssertionErr], model |-> model]
                    ELSE ReplaceFrom(self, h1, SetAttr(model, i, loaded), i + 1)
            ELSE LET sub == ReplaceFrom(self, h, module, 1)
                 IN ReplaceFrom(self, sub.h, SetAttr(model, i, sub.model), i + 1)

replace_multihead_attention_recursion(self, h, model) == ReplaceFrom(self, h, model, 1)

\* replace_multihead_attention: the counter is reset, then the traversal runs
\* over self.model.
replace_multihead_attention(self, model) ==
    replace_multihead_attention_recursion(self, [nr |-> 0, err |-> NoError], model)

\* A faulty variant: the two prefixes are looked for at the start of the full
\* name only, as the docstring words it.
TrainableStartsWith(self, name) ==
    \/ StartsWith(name, "lora_")
    \/ StartsWith(name, "finetune_head_")
    \/ (self.train_biases /\ Contains(name, "bias"))
    \/ (self.train_embeddings /\ Contains(name, "embeddings"))
    \/ (self.train_layer_norms /\ Contains(name, "LayerNorm"))

\* The condition of the loop of freeze_parameters_except_lora_and_bias.
Trainable(self, name) ==
    \/ Contains(name, "lora_")
    \/ Contains(name, "finetune_head_")
    \/ (self.train_biases /\ Contains(name, "bias"))
    \/ (self.train_embeddings /\ Contains(name, "embeddings"))
    \/ (self.train_layer_norms /\ Contains(name, "LayerNorm"))

\* The loop of freeze_parameters_except_lora_and_bias over
\* self.model.named_parameters().
RECURSIVE FreezeLoop(_, _, _)
FreezeLoop(self, module, prefix) ==
    LET ps == module.params
        cs == module.children
    IN Module(module.cls,
              [i \in 1..Len(ps) |->
                  [ps[i] EXCEPT !.requires_grad = Trainable(self, prefix \o ps[i].name)]],
              [i \in 1..Len(cs) |->
                  Child(cs[i].name, FreezeLoop(self, cs[i].module, prefix \o cs[i].name \o "."))])

\* What the local name lora_parameters holds when the statements after the
\* loop read it.
Unbound == "<unbound>"
NoneValue == "None"

\* The statements after the loop (the loading code): what they raise, or
\* NoError when they return an instance.  lora_parameters is a local of the
\* method (it is assigned below) and no parameter of it, so reading it raises
\* UnboundLocalError; the constructor call that would follow a supplied value
\* ends in this same method and raises there.
LoadFromState(lora_parameters) ==
    CASE lora_parameters = Unbound -> UnboundLocalErr
      [] lora_parameters = NoneValue -> ValueErrNoInput
      [] OTHER -> UnboundLocalErr

freeze_parameters_except_lora_and_bias(self, model) ==
    [model |-> FreezeLoop(self, model, ""), err |-> LoadFromState(Unbound),
     returned |-> NoModel]

\* ------------------------------------------- tensors of the attention module
\* A matrix is a sequence of rows; hidden states are a matrix with one row per
\* position of the sequence (one element of the batch).
MaxSeq == 2         \* longest sequence of hidden states, encoder states or cache

Rows(M) == Len(M)
Cols(M) == Len(M[1])

\* torch.matmul(X, Y)
MatMul(X, Y) ==
    [i \in 1..Rows(X) |->
        [j \in 1..Cols(Y) |->
            LET RECURSIVE Dot(_)
                Dot(k) == IF k = 0 THEN 0 ELSE Dot(k - 1) + X[i][k] * Y[k][j]
            IN Dot(Rows(Y))]]

Transposed(M) == [j \in 1..Cols(M) |-> [i \in 1..Rows(M) |-> M[i][j]]]

MatAdd(X, Y) == [i \in 1..Rows(X) |-> [j \in 1..Cols(X) |-> X[i][j] + Y[i][j]]]

\* F.linear(x, weight): x times the transposed weight, no bias.
FLinear(x, weight) == MatMul(x, Transposed(weight))

\* nn.Linear.forward(x): x times the transposed weight, plus the bias on each row.
NNLinear(lin, x) ==
    LET y == FLinear(x, lin.weight)
    IN [i \in 1..Rows(y) |-> [j \in 1..Cols(y) |-> y[i][j] + lin.bias[j]]]

\* torch.zeros(rows, cols)
ZerosMatrix(rows, cols) == [i \in 1..rows |-> [j \in 1..cols |-> 0]]

\* A faulty variant of the initial B: torch.ones(rows, cols).
OnesMatrix(rows, cols) == [i \in 1..rows |-> [j \in 1..cols |-> 1]]

\* The tensor the generator seeded with `seed` (torch.manual_seed) gives for the
\* use `salt`: entries in -1..1.
RandnMatrix(seed, salt, rows, cols) ==
    [i \in 1..rows |-> [j \in 1..cols |-> ((seed * i + salt * j + i * j + salt) % 3) - 1]]

\* B of an adapter as the constructor initialises it.
InitialB(d, r) == ZerosMatrix(d, r)

\* LoraRobertaSelfAttention.__init__(r, config) with its tensors: the base
\* projections as the base constructor draws them, B zero and A drawn.
AdaptedAttention(r, config, seed) ==
    LET d == config.hidden_size
    IN [r |-> r,
        seed |-> seed,
        is_decoder |-> config.is_decoder,
        query |-> [weight |-> RandnMatrix(seed, 1, d, d), bias |-> RandnMatrix(seed, 2, 1, d)[1]],
        key |-> [weight |-> RandnMatrix(seed, 3, d, d), bias |-> RandnMatrix(seed, 4, 1, d)[1]],
        value |-> [weight |-> RandnMatrix(seed, 5, d, d), bias |-> RandnMatrix(seed, 6, 1, d)[1]],
        lora_query_matrix_B |-> InitialB(d, r),
        lora_query_matrix_A |-> RandnMatrix(seed, 7, r, d),
        lora_value_matrix_B |-> InitialB(d, r),
        lora_value_matrix_A |-> RandnMatrix(seed, 8, r, d)]

\* The adapter matrices of a trained module, as a state dict carries them.
TrainedAdapters(r, d, seed) ==
    [lora_query_matrix_B |-> RandnMatrix(seed, 9, d, r),
     lora_query_matrix_A |-> RandnMatrix(seed, 10, r, d),
     lora_value_matrix_B |-> RandnMatrix(seed, 11, d, r),
     lora_value_matrix_A |-> RandnMatrix(seed, 12, r, d)]

\* load_state_dict(sd, strict=False) on the attention module, for a state dict
\* that carries the four adapter matrices.
LoadAdapters(self, sd) ==
    [self EXCEPT !.lora_query_matrix_B = sd.lora_query_matrix_B,
                 !.lora_query_matrix_A = sd.lora_query_matrix_A,
                 !.lora_value_matrix_B = sd.lora_value_matrix_B,
                 !.lora_value_matrix_A = sd.lora_value_matrix_A]

lora_query(self, x) ==
    LET lora_full_query_weights == MatMul(self.lora_query_matrix_B, self.lora_query_matrix_A)
    IN MatAdd(NNLinear(self.query, x), FLinear(x, lora_full_query_weights))

\* A faulty variant: the value projection without its adapter.
lora_value_unadapted(self, x) == NNLinear(self.value, x)

lora_value(self, x) ==
    LET lora_full_value_weights == MatMul(self.lora_value_matrix_B, self.lora_value_matrix_A)
    IN MatAdd(NNLinear(self.value, x), FLinear(x, lora_full_value_weights))

\* RobertaSelfAttention.transpose_for_scores: (seq, all_head_size) to
\* (heads, seq, head_size).
transpose_for_scores(x) ==
    [h \in 1..NumHeads |->
        [t \in 1..Rows(x) |-> [j \in 1..HeadSize |-> x[t][(h - 1) * HeadSize + j]]]]

\* torch.cat([past, layer], dim=2): along the sequence axis, per head.
CatSeqAxis(past, layer) == [h \in 1..NumHeads |-> past[h] \o layer[h]]

\* None, for an optional argument; a tensor is never empty.
None == <<>>

\* The part of forward after the key/value selection, from the raw scores to
\* the context: a numerical function of these tensors, kept symbolic.
Context(query_layer, key_layer, value_layer, attention_mask, head_mask) ==
    [query_layer |-> query_layer, key_layer |-> key_layer, value_layer |-> value_layer,
     attention_mask |-> attention_mask, head_mask |-> head_mask]

\* The attention probabilities forward returns on request: after the softmax,
\* the dropout and the head mask; kept symbolic as well.
AttentionProbs(query_layer, key_layer, attention_mask, head_mask) ==
    [query_layer |-> query_layer, key_layer |-> key_layer,
     attention_mask |-> attention_mask, head_mask |-> head_mask]

\* The key and value layers and the mask forward selects.
SelectKeyValue(self, hidden_states, attention_mask, encoder_hidden_states, encoder_attention_mask, past_key_value) ==
    LET is_cross_attention == encoder_hidden_states # None
    IN IF is_cross_attention /\ past_key_value # None
       THEN [key_layer |-> past_key_value[1], value_layer |-> past_key_value[2],
             attention_mask |-> encoder_attention_mask]
       ELSE IF is_cross_attention
       THEN [key_layer |-> transpose_for_scores(NNLinear(self.key, encoder_hidden_states)),
             value_layer |-> transpose_for_scores(lora_value(self, encoder_hidden_states)),
             attention_mask |-> encoder_attention_mask]
       ELSE IF past_key_value # None
       THEN [key_layer |-> CatSeqAxis(past_key_value[1],
                               transpose_for_scores(NNLinear(self.key, hidden_states))),
             value_layer |-> CatSeqAxis(past_key_value[2],
                               transpose_for_scores(lora_value(self, hidden_states))),
             attention_mask |-> attention_mask]
       ELSE [key_layer |-> transpose_for_scores(NNLinear(self.key, hidden_states)),
             value_layer |-> transpose_for_scores(lora_value(self, hidden_states)),
             attention_mask |-> attention_mask]

\* LoraRobertaSelfAttention.forward: the tuple of outputs, each with its name.
forward(self, hidden_states, attention_mask, head_mask, encoder_hidden_states, encoder_attention_mask, past_key_value, output_attentions) ==
    LET mixed_query_layer == lora_query(self, hidden_states)
        kv == SelectKeyValue(self, hidden_states, attention_mask, encoder_hidden_states,
                             encoder_attention_mask, past_key_value)
        query_layer == transpose_for_scores(mixed_query_layer)
        new_past_key_value == <<kv.key_layer, kv.value_layer>>
        context_layer == Context(query_layer, kv.key_layer, kv.value_layer,
                                 kv.attention_mask, head_mask)
        attention_probs == AttentionProbs(query_layer, kv.key_layer,
                                          kv.attention_mask, head_mask)
        outputs == IF output_attentions
                   THEN <<[name |-> "context_layer", value |-> context_layer],
                          [name |-> "attention_probs", value |-> attention_probs]>>
                   ELSE <<[name |-> "context_layer", value |-> context_layer]>>
    IN IF self.is_decoder
       THEN outputs \o <<[name |-> "past_key_value", value |-> new_past_key_value]>>
       ELSE outputs

\* ------------------------------------------------------------- the state
VARIABLES
    model,                \* self.model, NoModel until a checkpoint is loaded
    model_config,         \* self.model_config
    lora_rank,            \* self.lora_rank
    train_biases,         \* self.train_biases
    train_embeddings,     \* self.train_embeddings
    train_layer_norms,    \* self.train_layer_norms
    nr_replaced_modules,  \* self.nr_replaced_modules
    err,                  \* the exception the last call raised, or NoError
    log,                  \* the steps the last call went through, in order
    pre,                  \* self.model as the last call found (or loaded) it
    requested,            \* the model_id the constructor was last given
    returned,             \* the wrapper's model the last call returned, if any
    attn,                 \* an adapted attention module on its own, with its tensors
    fresh,                \* attn is as its constructor left it
    call                  \* the call made on attn, with its arguments and result

wrapperVars ==
    <<model, model_config, lora_rank, train_biases, train_embeddings,
      train_layer_norms, nr_replaced_modules, err, log, pre, requested, returned>>

attnVars == <<attn, fresh, call>>

vars == <<wrapperVars, attnVars>>

NoAttention == [r |-> 0]
NoCall == [op |-> "none"]

Self(seed) ==
    [lora_rank |-> lora_rank, model_config |-> model_config,
     train_biases |-> train_biases, train_embeddings |-> train_embeddings,
     train_layer_norms |-> train_layer_norms, seed |-> seed]

\* No wrapper has been constructed yet.
NoWrapper ==
    /\ model = NoModel
    /\ model_config = NoConfig
    /\ lora_rank = 0
    /\ train_biases = FALSE
    /\ train_embeddings = FALSE
    /\ train_layer_norms = FALSE
    /\ nr_replaced_modules = 0
    /\ err = NoError
    /\ log = <<>>
    /\ pre = NoModel
    /\ requested = ""
    /\ returned = NoModel

Init ==
    /\ NoWrapper
    /\ attn = NoAttention
    /\ fresh = FALSE
    /\ call = NoCall

\* LoraWrapperRobertaHelper.__init__, run once: the behaviour follows one wrapper.
LoraWrapperRobertaHelper_init(model_id, rank, biases, embedding, layer_norms, seed) ==
    /\ log = <<>>
    /\ UNCHANGED attnVars
    /\ requested' = model_id
    /\ returned' = NoModel
    /\ IF ~Resolvable(model_id)
       THEN /\ model' = NoModel
            /\ model_config' = NoConfig
            /\ lora_rank' = 0
            /\ train_biases' = FALSE
            /\ train_embeddings' = FALSE
            /\ train_layer_norms' = FALSE
            /\ nr_replaced_modules' = 0
            /\ pre' = NoModel
            /\ err' = OSErrorNotFound
            /\ log' = <<"from_pretrained">>
       ELSE LET loaded == from_pretrained(model_id)
                self == [lora_rank |-> rank, model_config |-> HubConfig(model_id),
                         train_biases |-> biases, train_embeddings |-> embedding,
                         train_layer_norms |-> layer_norms, seed |-> seed]
                replaced == replace_multihead_attention(self, loaded)
                frozen == freeze_parameters_except_lora_and_bias(self, replaced.model)
            IN /\ model_config' = self.model_config
               /\ lora_rank' = rank
               /\ train_biases' = biases
               /\ train_embeddings' = embedding
               /\ train_layer_norms' = layer_norms
               /\ nr_replaced_modules' = replaced.h.nr
               /\ pre' = loaded
               /\ IF replaced.h.err # NoError
                  THEN /\ model' = replaced.model
                       /\ err' = replaced.h.err
                       /\ log' = <<"from_pretrained", "replace_multihead_attention">>
                  ELSE /\ model' = frozen.model
                       /\ err' = frozen.err
                       /\ log' = <<"from_pretrained", "replace_multihead_attention",
                                   "freeze_parameters_except_lora_and_bias">>

\* wrapper.replace_multihead_attention() called on the wrapper as it stands.
ReplaceCall(seed) ==
    /\ model # NoModel
    /\ LET replaced == replace_multihead_attention(Self(seed), model)
       IN /\ model' = replaced.model
          /\ nr_replaced_modules' = replaced.h.nr
          /\ err' = replaced.h.err
    /\ pre' = model
    /\ log' = <<"replace_multihead_attention">>
    /\ returned' = NoModel
    /\ UNCHANGED <<model_config, lora_rank, train_biases, train_embeddings,
                   train_layer_norms, requested>>
    /\ UNCHANGED attnVars

\* wrapper.freeze_parameters_except_lora_and_bias() called on the wrapper as it
\* stands.
FreezeCall ==
    /\ model # NoModel
    /\ LET frozen == freeze_parameters_except_lora_and_bias(Self(1), model)
       IN /\ model' = frozen.model
          /\ err' = frozen.err
          /\ returned' = frozen.returned
    /\ pre' = model
    /\ log' = <<"freeze_parameters_except_lora_and_bias">>
    /\ UNCHANGED <<model_config, lora_rank, train_biases, train_embeddings,
                   train_layer_norms, nr_replaced_modules, requested>>
    /\ UNCHANGED attnVars

Next ==
    \/ \E model_id \in ModelIds, rank \in 1..MaxRank, seed \in 1..MaxSeed,
          biases \in BOOLEAN, embedding \in BOOLEAN, layer_norms \in BOOLEAN :
          LoraWrapperRobertaHelper_init(model_id, rank, biases, embedding, layer_norms, seed)
    \/ \E seed \in 1..MaxSeed : ReplaceCall(seed)
    \/ FreezeCall

Spec == Init /\ [][Next]_vars

\* ------------------------------------------- the attention module on its own
AttentionConfig(is_decoder) ==
    [Config(1, "absolute", "eager") EXCEPT !.is_decoder = is_decoder]

\* The tensors the calls are given: `len` positions, drawn by the generator the
\* module's own tensors were drawn by.
HiddenStates(seed, len) == RandnMatrix(seed, 20, len, HiddenSize)

EncoderStates(seed, len) ==
    IF len = 0 THEN None ELSE RandnMatrix(seed, 21, len, HiddenSize)

PastKeyValue(seed, len) ==
    IF len = 0 THEN None
    ELSE <<transpose_for_scores(RandnMatrix(seed, 22, len, HiddenSize)),
           transpose_for_scores(RandnMatrix(seed, 23, len, HiddenSize))>>

Mask(given, name) == IF given THEN <<name>> ELSE None

\* A freshly constructed adapted attention module.
InitAttn ==
    /\ NoWrapper
    /\ \E r \in 1..MaxRank, is_decoder \in BOOLEAN, seed \in 1..MaxSeed :
          attn = AdaptedAttention(r, AttentionConfig(is_decoder), seed)
    /\ fresh = TRUE
    /\ call = NoCall

\* new_layer.load_state_dict(state_dict_old, strict=False) with a state dict
\* that holds trained adapter matrices.
LoadTrained ==
    /\ fresh /\ call = NoCall
    /\ attn' = LoadAdapters(attn, TrainedAdapters(attn.r, HiddenSize, attn.seed))
    /\ fresh' = FALSE
    /\ UNCHANGED <<call, wrapperVars>>

LoraQueryCall(x) ==
    /\ call = NoCall
    /\ call' = [op |-> "lora_query", x |-> x, result |-> lora_query(attn, x)]
    /\ UNCHANGED <<attn, fresh, wrapperVars>>

LoraValueCall(x) ==
    /\ call = NoCall
    /\ call' = [op |-> "lora_value", x |-> x, result |-> lora_value(attn, x)]
    /\ UNCHANGED <<attn, fresh, wrapperVars>>

ForwardCall(hidden_states, attention_mask, head_mask, encoder_hidden_states, encoder_attention_mask, past_key_value, output_attentions) ==
    /\ call = NoCall
    /\ call' = [op |-> "forward",
                hidden_states |-> hidden_states,
                attention_mask |-> attention_mask,
                encoder_hidden_states |-> encoder_hidden_states,
                encoder_attention_mask |-> encoder_attention_mask,
                past_key_value |-> past_key_value,
                head_mask |-> head_mask,
                output_attentions |-> output_attentions,
                outputs |-> forward(attn, hidden_states, attention_mask, head_mask,
                                    encoder_hidden_states, encoder_attention_mask,
                                    past_key_value, output_attentions)]
    /\ UNCHANGED <<attn, fresh, wrapperVars>>

NextAttn ==
    \/ LoadTrained
    \/ \E len \in 1..MaxSeq : LoraQueryCall(HiddenStates(attn.seed, len))
    \/ \E len \in 1..MaxSeq : LoraValueCall(HiddenStates(attn.seed, len))
    \/ \E len \in 1..MaxSeq, elen \in 0..MaxSeq, plen \in 0..MaxSeq,
          am \in BOOLEAN, hm \in BOOLEAN, eam \in BOOLEAN, output_attentions \in BOOLEAN :
          ForwardCall(HiddenStates(attn.seed, len), Mask(am, "attention_mask"),
                      Mask(hm, "head_mask"), EncoderStates(attn.seed, elen),
                      Mask(eam, "encoder_attention_mask"), PastKeyValue(attn.seed, plen),
                      output_attentions)

SpecAttn == InitAttn /\ [][NextAttn]_vars

\* ------------------------------------------------- reading the module tree
\* The paths (sequences of child names) of the modules of a tree, in the order
\* a depth-first traversal over named_children meets them; with stopAtAttention
\* the traversal does not descend into attention modules, as the replacement
\* does not.
RECURSIVE PathSeq(_, _), ChildrenPathSeq(_, _)
PathSeq(module, stopAtAttention) ==
    <<<<>>>> \o
    (IF stopAtAttention /\ IsInstance(module.cls, "RobertaSelfAttention")
     THEN <<>>
     ELSE ChildrenPathSeq(module.children, stopAtAttention))

ChildrenPathSeq(cs, stopAtAttention) ==
    IF cs = <<>> THEN <<>>
    ELSE LET sub == PathSeq(Head(cs).module, stopAtAttention)
         IN [i \in 1..Len(sub) |-> <<Head(cs).name>> \o sub[i]]
            \o ChildrenPathSeq(Tail(cs), stopAtAttention)

RECURSIVE At(_, _)
At(module, path) ==
    IF path = <<>> THEN module
    ELSE LET i == CHOOSE j \in 1..Len(module.children) : module.children[j].name = Head(path)
         IN At(module.children[i].module, Tail(path))

\* Every module of the tree, at any depth.
AllPaths(tree) ==
    LET ps == PathSeq(tree, FALSE) IN {ps[i] : i \in 1..Len(ps)}

\* The attention modules the traversal of the tree meets, in its order.
AttentionPathSeq(tree) ==
    SelectSeq(PathSeq(tree, TRUE),
              LAMBDA p : p # <<>> /\ IsInstance(At(tree, p).cls, "RobertaSelfAttention"))

Unadapted(module) ==
    IsInstance(module.cls, "RobertaSelfAttention") /\ module.cls # "LoraRobertaSelfAttention"

Ran(step) == \E i \in 1..Len(log) : log[i] = step

\* The last call ran the replacement and the replacement raised nothing.
ReplaceCompleted ==
    Ran("replace_multihead_attention") /\ err \notin {AssertionErr, RuntimeErr}

\* The last call was the constructor.
Constructed == Ran("from_pretrained")

\* ------------------------------------------------------------ the claims

\* C1: constructing the wrapper with a resolvable model identifier and an
\* architecture that passes the integrity check completes without error, after
\* the replacement first and the freezing policy second; construction fails only
\* when the identifier cannot be loaded or the integrity check fails.
C1_ConstructionCompletes ==
    Constructed =>
        /\ (err = NoError) <=> (Resolvable(requested) /\ ReplaceCompleted)
        /\ err # NoError => err \in {OSErrorNotFound, AssertionErr}
        /\ err = NoError =>
              log = <<"from_pretrained", "replace_multihead_attention",
                      "freeze_parameters_except_lora_and_bias">>

\* The rule of the freezing policy on a parameter name, for the wrapper's flags.
PolicySaysTrainable(name) ==
    \/ Contains(name, "lora_")
    \/ Contains(name, "finetune_head_")
    \/ (Contains(name, "bias") /\ train_biases)
    \/ (Contains(name, "embeddings") /\ train_embeddings)
    \/ (Contains(name, "LayerNorm") /\ train_layer_norms)

\* C2: after the freezing policy has run, every named parameter of the adapted
\* model is trainable if and only if its name contains "lora_", or
\* "finetune_head_", or "bias" with the biases flag set, or "embeddings" with the
\* embeddings flag set, or "LayerNorm" with the layer-norms flag set.
C2_FreezingPolicy ==
    Ran("freeze_parameters_except_lora_and_bias") =>
        LET ps == NamedParameters(model)
        IN \A i \in 1..Len(ps) : ps[i].requires_grad <=> PolicySaysTrainable(ps[i].name)

\* The policy has run with only the embeddings flag set, on a model with adapter
\* parameters below the top level, and has left some parameters frozen.
C2_Witness ==
    /\ Ran("freeze_parameters_except_lora_and_bias")
    /\ train_embeddings /\ ~train_biases /\ ~train_layer_norms
    /\ LET ps == NamedParameters(model)
       IN /\ \E i \in 1..Len(ps) :
                Contains(ps[i].name, ".lora_") /\ ps[i].requires_grad
          /\ \E i \in 1..Len(ps) :
                Contains(ps[i].name, "bias") /\ ~Contains(ps[i].name, "embeddings")
                /\ ~ps[i].requires_grad
          /\ \E i \in 1..Len(ps) :
                ps[i].name = "embeddings.LayerNorm.bias" /\ ps[i].requires_grad

\* The base self-attention modules of a tree that are not adapted.
UnadaptedPaths(tree) == {p \in AllPaths(tree) : Unadapted(At(tree, p))}

\* C3: after wrapping, no unadapted base self-attention module remains anywhere
\* in the module tree, and the counter of replaced modules equals the number of
\* base self-attention modules the tree held before.
C3_ReplacementComplete ==
    ReplaceCompleted =>
        /\ UnadaptedPaths(model) = {}
        /\ nr_replaced_modules = Cardinality(UnadaptedPaths(pre))

\* A wrapping that replaced more than one attention module, each nested below
\* the top level.
C3_Witness ==
    /\ ReplaceCompleted
    /\ Cardinality(UnadaptedPaths(pre)) > 1
    /\ \A p \in UnadaptedPaths(pre) : Len(p) > 1
    /\ nr_replaced_modules > 1

\* The parameter names a replacement built for the wrapper's rank and
\* configuration has, the names beginning with the adapter prefix left out.
NewKeysWithoutAdapter ==
    {k \in Keys(StateDict(LoraRobertaSelfAttention(lora_rank, model_config, 0))) :
        ~StartsWith(k, "lora_")}

KeysDiffer(old) == Keys(StateDict(old)) # NewKeysWithoutAdapter

\* The new module stands at path p in place of the one the traversal found.
Spliced(p) ==
    /\ At(model, p).cls = "LoraRobertaSelfAttention"
    /\ StateDict(At(model, p)) # StateDict(At(pre, p))

\* C4: for each replacement built during the traversal the parameter names of
\* the old submodule are compared with those of the new one minus the names
\* beginning with the adapter prefix; when they differ a fatal error is raised
\* before the new module is spliced in, when they are equal it is spliced in.
C4_IntegrityCheck ==
    Ran("replace_multihead_attention") =>
        LET ps == AttentionPathSeq(pre)
        IN /\ (err = AssertionErr) <=> (\E j \in 1..Len(ps) : KeysDiffer(At(pre, ps[j])))
           /\ \A j \in 1..Len(ps) :
                 /\ Spliced(ps[j]) <=> (\A k \in 1..j : ~KeysDiffer(At(pre, ps[k])))
                 /\ ~Spliced(ps[j]) => At(model, ps[j]) = At(pre, ps[j])

\* The traversal met a module whose names differ, raised, and left it in place.
C4_Witness ==
    /\ Ran("replace_multihead_attention")
    /\ err = AssertionErr
    /\ \E p \in AllPaths(pre) :
          /\ IsInstance(At(pre, p).cls, "RobertaSelfAttention")
          /\ KeysDiffer(At(pre, p))
          /\ At(model, p) = At(pre, p)

\* Every attention module of the tree is an adapted one already.
AllAdapted(tree) ==
    LET ps == AttentionPathSeq(tree)
    IN /\ Len(ps) > 0
       /\ \A j \in 1..Len(ps) : At(tree, ps[j]).cls = "LoraRobertaSelfAttention"

\* C5: the traversal replaces a submodule only if it is a base self-attention
\* module and not an adapted one already: run over a model whose attention
\* modules are all adapted, it replaces none, leaves the adapter parameters in
\* place and raises no integrity error.
C5_AdaptedLeftAlone ==
    (Ran("replace_multihead_attention") /\ AllAdapted(pre)) =>
        /\ nr_replaced_modules = 0
        /\ err = NoError
        /\ model = pre

\* C6: round trip: the loading code, run on a wrapper's saved state, rebuilds a
\* wrapper from the stored identifier and rank and loads the saved values, so
\* that it returns a wrapper whose every parameter equals the same-named
\* parameter of the source wrapper.
C6_RoundTrip ==
    Ran("freeze_parameters_except_lora_and_bias") =>
        /\ err = NoError
        /\ returned # NoModel
        /\ StateDict(returned) = StateDict(model)

\* C7: the loading code run with neither a path nor a state mapping fails at
\* once with "No filepath or state dict provided", before any model is loaded.
C7_LoadFailsFast ==
    Ran("freeze_parameters_except_lora_and_bias") =>
        /\ err = ValueErrNoInput
        /\ ~Ran("from_pretrained")

\* C9: the replacement transplants the weights and touches nothing else: after
\* wrapping, every parameter the tree had before is there under the same name
\* with the same value (the non-adapter parameters of the adapted modules and
\* every parameter outside them), and the only new names are adapter parameters
\* of the replaced attention modules.
C9_WeightsTransplanted ==
    ReplaceCompleted =>
        LET old == StateDict(pre)
            new == StateDict(model)
            ps == AttentionPathSeq(pre)
        IN /\ old \subseteq new
           /\ \A e \in new \ old :
                 /\ e.name \notin Keys(old)
                 /\ \E j \in 1..Len(ps) :
                       LET lora == Keys(StateDict(At(model, ps[j]))) \ Keys(StateDict(At(pre, ps[j])))
                       IN \E k \in lora :
                             /\ StartsWith(k, "lora_")
                             /\ Len(e.name) > Len(k)
                             /\ SubSeq(e.name, Len(e.name) - Len(k) + 1, Len(e.name)) = k

\* A wrapping that replaced attention modules of a checkpoint whose values all
\* differ from a fresh initialisation.
C9_Witness ==
    /\ ReplaceCompleted
    /\ nr_replaced_modules >= 1
    /\ \E e \in StateDict(model) : e.name = "encoder.layer.0.attention.self.query.weight"
                                   /\ e.val = 11
    /\ \E e \in StateDict(model) : Contains(e.name, "lora_") /\ e.val # 0

\* What the adapted projection of x is, from the module's tensors: the base
\* projection plus x times the transposed product of the adapter's B and A.
AdaptedProjection(lin, B, A, x) ==
    MatAdd(NNLinear(lin, x), MatMul(x, Transposed(MatMul(B, A))))

IsZeroMatrix(M) == \A i \in 1..Rows(M) : \A j \in 1..Cols(M) : M[i][j] = 0

\* C8: zero-init invariant: in a freshly constructed adapted attention module of
\* any rank both B matrices are all zeros, so B*A is the zero matrix and, for
\* every input x, lora_query(x) is the base query projection of x and
\* lora_value(x) the base value projection of x.
C8_ZeroInit ==
    fresh =>
        /\ IsZeroMatrix(attn.lora_query_matrix_B)
        /\ IsZeroMatrix(attn.lora_value_matrix_B)
        /\ Rows(attn.lora_query_matrix_B) = HiddenSize
        /\ Cols(attn.lora_query_matrix_B) = attn.r
        /\ IsZeroMatrix(MatMul(attn.lora_query_matrix_B, attn.lora_query_matrix_A))
        /\ IsZeroMatrix(MatMul(attn.lora_value_matrix_B, attn.lora_value_matrix_A))
        /\ call.op = "lora_query" => call.result = NNLinear(attn.query, call.x)
        /\ call.op = "lora_value" => call.result = NNLinear(attn.value, call.x)

\* lora_query has been called on a fresh module of rank above one, with
\* nonzero A and a nonzero input of more than one position.
C8_Witness ==
    /\ fresh
    /\ attn.r > 1
    /\ call.op = "lora_query"
    /\ Rows(call.x) > 1
    /\ ~IsZeroMatrix(call.x)
    /\ ~IsZeroMatrix(attn.lora_query_matrix_A)
    /\ ~IsZeroMatrix(call.result)

\* C10: the key/value source of forward is one of four modes, by whether
\* encoder states and a cache are supplied: cross-attention with cache reuses
\* the cached key and value and uses the cross-attention mask; cross-attention
\* without cache takes the key from the unadapted key projection and the value
\* from lora_value of the encoder states, with the cross-attention mask;
\* self-attention with cache takes both from the current hidden states and
\* appends each after the cached tensor along the sequence axis; self-attention
\* without cache does the same without concatenation.  The query is lora_query
\* of the hidden states, the key is never adapted, and a decoder returns the
\* resulting key/value pair as its last output.
C10_KeyValueModes ==
    call.op = "forward" =>
        LET out == call.outputs[1].value
            h == call.hidden_states
            e == call.encoder_hidden_states
            p == call.past_key_value
            BaseKey(x) == transpose_for_scores(NNLinear(attn.key, x))
            AdaptedValue(x) ==
                transpose_for_scores(
                    AdaptedProjection(attn.value, attn.lora_value_matrix_B,
                                      attn.lora_value_matrix_A, x))
            After(layer, cached, current) ==
                \A hd \in 1..NumHeads :
                    /\ Len(layer[hd]) = Len(cached[hd]) + Len(current[hd])
                    /\ SubSeq(layer[hd], 1, Len(cached[hd])) = cached[hd]
                    /\ SubSeq(layer[hd], Len(cached[hd]) + 1, Len(layer[hd])) = current[hd]
        IN /\ out.query_layer =
                 transpose_for_scores(
                     AdaptedProjection(attn.query, attn.lora_query_matrix_B,
                                       attn.lora_query_matrix_A, h))
           /\ (e # None /\ p # None) =>
                 /\ out.key_layer = p[1]
                 /\ out.value_layer = p[2]
                 /\ out.attention_mask = call.encoder_attention_mask
           /\ (e # None /\ p = None) =>
                 /\ out.key_layer = BaseKey(e)
                 /\ out.value_layer = AdaptedValue(e)
                 /\ out.attention_mask = call.encoder_attention_mask
           /\ (e = None /\ p # None) =>
                 /\ After(out.key_layer, p[1], BaseKey(h))
                 /\ After(out.value_layer, p[2], AdaptedValue(h))
                 /\ out.attention_mask = call.attention_mask
           /\ (e = None /\ p = None) =>
                 /\ out.key_layer = BaseKey(h)
                 /\ out.value_layer = AdaptedValue(h)
                 /\ out.attention_mask = call.attention_mask
           /\ attn.is_decoder =>
                 LET last == call.outputs[Len(call.outputs)]
                 IN /\ last.name = "past_key_value"
                    /\ last.value = <<out.key_layer, out.value_layer>>

\* forward has run on a trained decoder module in self-attention with a cache,
\* the adapter changing the value it appends to the cache, and with distinct
\* masks supplied.
C10_Witness ==
    /\ call.op = "forward"
    /\ ~fresh
    /\ attn.is_decoder
    /\ call.encoder_hidden_states = None
    /\ call.past_key_value # None
    /\ call.attention_mask # None
    /\ call.encoder_attention_mask # None
    /\ Len(call.outputs[1].value.key_layer[1]) > Len(call.past_key_value[1][1])
    /\ call.outputs[1].value.value_layer #
          CatSeqAxis(call.past_key_value[2],
                     transpose_for_scores(NNLinear(attn.value, call.hidden_states)))
====
